---- MODULE Spec2Model ----
(***************************************************************************)
(* Model of mediainfo_format_profile.py: a coordinator process checks the  *)
(* external tool, validates the root directory, lists the *.mkv files,     *)
(* maps process_file over them on a multiprocessing Pool and prints the    *)
(* matches and a summary.                                                  *)
(*                                                                         *)
(* Text is modelled as a sequence of one-character strings, so that        *)
(* trimming and exact comparison are computed, not assumed.  A path is     *)
(* identified with its position in the listing.                            *)
(***************************************************************************)
EXTENDS Integers, Sequences, FiniteSets, TLC

VARIABLES
    pc,            \* position of the coordinator (or of the unit harness)
    argFolder,     \* args.folder given on the command line
    verbose,       \* args.verbose
    numJobs,       \* num_jobs after the cpu_count() default
    rootKind,      \* what the folder argument points to
    toolChecked,   \* check_mediainfo has returned normally
    rootExamined,  \* scan_directory has looked at the root
    enumerated,    \* rglob has returned
    mkv_files,     \* the listing, in enumeration order
    outcome,       \* what subprocess.run does for each listed file
    poolCreated,   \* Pool(...) has been constructed
    worker,        \* per worker: Idle, or the task it has taken
    sigint,        \* per worker: disposition of SIGINT
    backlog,       \* task arguments not yet taken by a worker
    results,       \* positional result slots of map_async
    extracted,     \* per file: what get_format_profile returned
    takeCount,     \* per file: times it was taken from the backlog
    processed,     \* per file: times process_file ran to its end
    completed,     \* indices of the files, in the order they completed
    diag,          \* number of diagnostic lines printed by workers
    matches,       \* the filtered list of line 157
    printed,       \* MATCH blocks printed so far, in print order
    summary,       \* the "Scan complete" block, once printed
    noFilesNotice, \* "No MKV files found in directory." printed
    errors,        \* "Error: ..." messages written to stderr
    notices,       \* interruption notices printed by the coordinator
    workerReacted, \* workers in which SIGINT raised KeyboardInterrupt
    traceback,     \* an uncaught exception reached the interpreter
    intPhase,      \* where the coordinator was when SIGINT arrived
    exitStatus     \* process exit status, -1 while running

vars == <<pc, argFolder, verbose, numJobs, rootKind, toolChecked, rootExamined,
          enumerated, mkv_files, outcome, poolCreated, worker, sigint, backlog,
          results, extracted, takeCount, processed, completed, diag, matches,
          printed, summary, noFilesNotice, errors, notices, workerReacted, traceback,
          intPhase, exitStatus>>

\* Largest listing considered.
MaxFiles == 2

\* Worker counts considered (-j 1, -j 2, -j 8).
NumJobsChoices == {1, 2, 8}

WorkerIds == UNION {1..n : n \in NumJobsChoices}

----------------------------------------------------------------------------
\* Text helpers

Whitespace == {" ", "\t", "\n"}

RECURSIVE lstrip(_)
lstrip(s) ==
    IF s = <<>> THEN <<>>
    ELSE IF Head(s) \in Whitespace THEN lstrip(Tail(s)) ELSE s

RECURSIVE rstrip(_)
rstrip(s) ==
    IF s = <<>> THEN <<>>
    ELSE IF s[Len(s)] \in Whitespace THEN rstrip(SubSeq(s, 1, Len(s) - 1)) ELSE s

strip(s) == rstrip(lstrip(s))

TARGET_PROFILES ==
    << <<"M", "a", "i", "n", " ", "1", "0", "@", "L", "5", ".", "1", "@", "H", "i", "g", "h">>,
       <<"M", "a", "i", "n", " ", "1", "0", "@", "L", "5", "@", "H", "i", "g", "h">>,
       <<"M", "a", "i", "n", " ", "1", "0", "@", "L", "5", ".", "2", "@", "H", "i", "g", "h">>,
       <<"H", "i", "g", "h", " ", "1", "0", "@", "L", "5">> >>

----------------------------------------------------------------------------
\* Outcomes of subprocess.run(["mediainfo", ...], timeout=30)

Exited(code, out) == [kind |-> "exit", returncode |-> code, stdout |-> out]

Raised(exc) == [kind |-> exc, returncode |-> 0, stdout |-> <<>>]

\* Tool output seen by the unit harness: targets with and without the
\* trailing newline, padded, in another case, cut short, extended, blank.
UnitStdouts ==
    { <<>>,
      <<" ", "\n">>,
      <<"M", "a", "i", "n", " ", "1", "0", "@", "L", "5", ".", "1", "@", "H", "i", "g", "h">>,
      <<"M", "a", "i", "n", " ", "1", "0", "@", "L", "5", ".", "1", "@", "H", "i", "g", "h", "\n">>,
      <<"M", "a", "i", "n", " ", "1", "0", "@", "L", "5", "@", "H", "i", "g", "h", "\n">>,
      <<"M", "a", "i", "n", " ", "1", "0", "@", "L", "5", ".", "2", "@", "H", "i", "g", "h", "\n">>,
      <<" ", "\t", "H", "i", "g", "h", " ", "1", "0", "@", "L", "5", " ", "\n">>,
      <<"M", "a", "i", "n", "@", "L", "4", "@", "M", "a", "i", "n", "\n">>,
      <<"m", "a", "i", "n", " ", "1", "0", "@", "l", "5", ".", "1", "@", "h", "i", "g", "h", "\n">>,
      <<"M", "a", "i", "n", " ", "1", "0", "@", "L", "5", "\n">>,
      <<"M", "a", "i", "n", " ", "1", "0", "@", "L", "5", ".", "1", "@", "H", "i", "g", "h", "@", "X", "\n">>,
      <<"M", "a", "i", "n", " ", " ", "1", "0", "@", "L", "5", ".", "1", "@", "H", "i", "g", "h", "\n">> }

UnitOutcomes ==
    { Exited(c, out) : c \in {0, 1}, out \in UnitStdouts }
      \cup { Raised(e) : e \in {"TimeoutExpired", "SubprocessError", "FileNotFoundError"} }

\* Values handed to the classifier when get_format_profile is replaced by a
\* stub: these include text that trimming would never let through.
StubProfiles ==
    { <<"M", "a", "i", "n", " ", "1", "0", "@", "L", "5", ".", "1", "@", "H", "i", "g", "h">>,
      <<"H", "i", "g", "h", " ", "1", "0", "@", "L", "5">>,
      <<"M", "a", "i", "n", " ", "1", "0", "@", "L", "5", ".", "1", "@", "H", "i", "g", "h", " ">>,
      <<" ", "H", "i", "g", "h", " ", "1", "0", "@", "L", "5">>,
      <<"H", "I", "G", "H", " ", "1", "0", "@", "L", "5">>,
      <<"H", "i", "g", "h", " ", "1", "0">>,
      <<"M", "a", "i", "n", "@", "L", "4", "@", "M", "a", "i", "n">> }

\* Per-file behaviour of the tool during a scan.
RunOutcomes ==
    { Exited(0, <<"M", "a", "i", "n", " ", "1", "0", "@", "L", "5", ".", "1", "@", "H", "i", "g", "h", "\n">>),
      Exited(0, <<"H", "i", "g", "h", " ", "1", "0", "@", "L", "5">>),
      Exited(0, <<"M", "a", "i", "n", "@", "L", "4", "@", "M", "a", "i", "n", "\n">>),
      Exited(0, <<>>),
      Exited(1, <<"H", "i", "g", "h", " ", "1", "0", "@", "L", "5">>),
      Raised("TimeoutExpired"),
      Raised("FileNotFoundError") }

----------------------------------------------------------------------------
\* get_format_profile and process_file

NoneProfile == [kind |-> "None", str |-> <<>>]

StrProfile(s) == [kind |-> "str", str |-> s]

RaisedProfile(exc) == [kind |-> exc, str |-> <<>>]

NotRun == [kind |-> "notrun", str |-> <<>>]

\* The except clause of get_format_profile.
CaughtExceptions == {"TimeoutExpired", "SubprocessError"}

get_format_profile(o) ==
    IF o.kind = "exit"
    THEN IF o.returncode = 0
         THEN LET profile == strip(o.stdout)
              IN  IF profile # <<>> THEN StrProfile(profile) ELSE NoneProfile
         ELSE NoneProfile
    ELSE IF o.kind \in CaughtExceptions
         THEN NoneProfile
         ELSE RaisedProfile(o.kind)

Pending == [kind |-> "pending", path |-> 0, profile |-> <<>>]

NoneResult == [kind |-> "None", path |-> 0, profile |-> <<>>]

MatchResult(p, s) == [kind |-> "tuple", path |-> p, profile |-> s]

RaisedResult(exc) == [kind |-> exc, path |-> 0, profile |-> <<>>]

\* A comparison that accepts the beginning of a target as well.
StartsSomeTarget(s) ==
    \E k \in 1..Len(TARGET_PROFILES) :
        /\ Len(s) <= Len(TARGET_PROFILES[k])
        /\ SubSeq(TARGET_PROFILES[k], 1, Len(s)) = s

InTargetProfiles(s) == \E k \in 1..Len(TARGET_PROFILES) : TARGET_PROFILES[k] = s

\* Lines 88-100, given what get_format_profile returned.
classify(file_path, v, profile) ==
    IF profile.kind = "None" THEN NoneResult
    ELSE IF profile.kind = "str"
         THEN IF InTargetProfiles(profile.str)
              THEN MatchResult(file_path, profile.str)
              ELSE NoneResult
         ELSE RaisedResult(profile.kind)

\* Diagnostic lines printed by process_file.
DiagLines(v, profile) ==
    IF ~v THEN 0
    ELSE IF profile.kind = "None" THEN 1
         ELSE IF profile.kind = "str" THEN 2 ELSE 0

process_file(args, o) == classify(args[1], args[2], get_format_profile(o))

----------------------------------------------------------------------------
\* Helpers of the coordinator

RootKinds == {"dir", "unreadable_dir", "file", "missing"}

\* Path.is_dir()
IsDirAnyEntry(kind) == kind # "missing"

IsDir(kind) == kind \in {"dir", "unreadable_dir"}

\* os.access(directory_path, os.R_OK), for something that exists
Readable(kind) == kind \in {"dir", "file"}

\* file_count == 0
NoFilesNever(n) == FALSE

NoFiles(n) == n = 0

\* signal.signal(signal.SIGINT, signal.SIG_IGN)
init_worker_default == "SIG_DFL"

init_worker == "SIG_IGN"

Idle == [index |-> 0, args |-> <<0, FALSE>>]

Task(i, path, v) == [index |-> i, args |-> <<path, v>>]

\* A worker takes the head of the shared task queue; this is what is left.
BacklogNotConsumed(b) == b

RemainingBacklog(b) == Tail(b)

\* map_async keeps one slot per input, filled when that input completes.
StoreInCompletionOrder(res, i, r) ==
    LET k == CHOOSE j \in 1..Len(res) :
                 /\ res[j].kind = "pending"
                 /\ \A h \in 1..(j - 1) : res[h].kind # "pending"
    IN  [res EXCEPT ![k] = r]

StoreResult(res, i, r) == [res EXCEPT ![i] = r]

\* async_result.get() returns (or raises) only when every slot is filled.
AnyComplete(res) == \E i \in 1..Len(res) : res[i].kind # "pending"

AllComplete(res) == \A i \in 1..Len(res) : res[i].kind # "pending"

IsException(r) == r.kind \notin {"pending", "None", "tuple"}

IsNotNone(r) == r.kind # "None"

NoSummary == [shown |-> FALSE, scanned |-> 0, found |-> 0, tip |-> FALSE]

Summary(file_count, match_count) ==
    [shown |-> TRUE, scanned |-> file_count, found |-> match_count,
     tip |-> (match_count = 0)]

inputs == <<argFolder, verbose, numJobs, rootKind>>

listing == <<enumerated, mkv_files, outcome>>

poolVars == <<poolCreated, worker, sigint, backlog, results, extracted,
              takeCount, processed, completed, diag>>

reportVars == <<matches, printed, summary, noFilesNotice>>

----------------------------------------------------------------------------
\* Initial states

Fresh ==
    /\ toolChecked = FALSE
    /\ rootExamined = FALSE
    /\ enumerated = FALSE
    /\ poolCreated = FALSE
    /\ worker = <<>>
    /\ sigint = <<>>
    /\ backlog = <<>>
    /\ takeCount = <<>>
    /\ processed = <<>>
    /\ completed = <<>>
    /\ diag = 0
    /\ matches = <<>>
    /\ printed = <<>>
    /\ summary = NoSummary
    /\ noFilesNotice = FALSE
    /\ errors = 0
    /\ notices = 0
    /\ workerReacted = {}
    /\ traceback = FALSE
    /\ intPhase = "none"
    /\ exitStatus = -1

Init ==
    /\ pc = "main"
    /\ argFolder \in BOOLEAN
    /\ verbose \in BOOLEAN
    /\ numJobs \in NumJobsChoices
    /\ rootKind \in RootKinds
    /\ mkv_files = <<>>
    /\ outcome = <<>>
    /\ results = <<>>
    /\ extracted = <<>>
    /\ Fresh

----------------------------------------------------------------------------
\* main

ParseArgs ==
    /\ pc = "main"
    /\ IF argFolder
       THEN /\ pc' = "check_mediainfo"
            /\ UNCHANGED exitStatus
       ELSE /\ pc' = "exited"
            /\ exitStatus' = 1
    /\ UNCHANGED <<inputs, toolChecked, rootExamined, listing, poolVars,
                   reportVars, errors, notices, workerReacted, traceback,
                   intPhase>>

CheckMediainfo ==
    /\ pc = "check_mediainfo"
    /\ \E run \in {"ok", "CalledProcessError", "FileNotFoundError"} :
          IF run = "ok"
          THEN /\ toolChecked' = TRUE
               /\ pc' = "scan_directory"
               /\ UNCHANGED <<errors, exitStatus>>
          ELSE /\ errors' = errors + 1
               /\ pc' = "exited"
               /\ exitStatus' = 1
               /\ UNCHANGED toolChecked
    /\ UNCHANGED <<inputs, rootExamined, listing, poolVars, reportVars,
                   notices, workerReacted, traceback, intPhase>>

----------------------------------------------------------------------------
\* scan_directory

ValidateRoot ==
    /\ pc = "scan_directory"
    /\ rootExamined' = TRUE
    /\ IF ~IsDir(rootKind) \/ ~Readable(rootKind)
       THEN /\ errors' = errors + 1
            /\ pc' = "exited"
            /\ exitStatus' = 1
       ELSE /\ pc' = "listing"
            /\ UNCHANGED <<errors, exitStatus>>
    /\ UNCHANGED <<inputs, toolChecked, listing, poolVars, reportVars,
                   notices, workerReacted, traceback, intPhase>>

ListFiles ==
    /\ pc = "listing"
    /\ \E n \in 0..MaxFiles :
          /\ mkv_files' = [i \in 1..n |-> i]
          /\ outcome' \in [1..n -> RunOutcomes]
          /\ IF NoFiles(n)
             THEN /\ noFilesNotice' = TRUE
                  /\ pc' = "exited"
                  /\ exitStatus' = 0
             ELSE /\ pc' = "pool"
                  /\ UNCHANGED <<noFilesNotice, exitStatus>>
    /\ enumerated' = TRUE
    /\ UNCHANGED <<inputs, toolChecked, rootExamined, poolVars, matches,
                   printed, summary, errors, notices, workerReacted,
                   traceback, intPhase>>

CreatePool ==
    /\ pc = "pool"
    /\ poolCreated' = TRUE
    /\ worker' = [w \in 1..numJobs |-> Idle]
    /\ sigint' = [w \in 1..numJobs |-> init_worker]
    /\ backlog' = [i \in 1..Len(mkv_files) |-> Task(i, mkv_files[i], verbose)]
    /\ results' = [i \in 1..Len(mkv_files) |-> Pending]
    /\ extracted' = [i \in 1..Len(mkv_files) |-> NotRun]
    /\ takeCount' = [i \in 1..Len(mkv_files) |-> 0]
    /\ processed' = [i \in 1..Len(mkv_files) |-> 0]
    /\ pc' = "parallel"
    /\ UNCHANGED <<inputs, toolChecked, rootExamined, listing, completed,
                   diag, reportVars, errors, notices, workerReacted, traceback,
                   intPhase, exitStatus>>

TakeTask(w) ==
    /\ pc = "parallel"
    /\ w \in DOMAIN worker
    /\ worker[w] = Idle
    /\ backlog # <<>>
    /\ worker' = [worker EXCEPT ![w] = Head(backlog)]
    /\ backlog' = RemainingBacklog(backlog)
    /\ takeCount' = [takeCount EXCEPT ![Head(backlog).index] = @ + 1]
    /\ UNCHANGED <<pc, inputs, toolChecked, rootExamined, listing, poolCreated,
                   sigint, results, extracted, processed, completed, diag,
                   reportVars,
                   errors, notices, workerReacted, traceback, intPhase,
                   exitStatus>>

RunTask(w) ==
    /\ pc = "parallel"
    /\ w \in DOMAIN worker
    /\ worker[w] # Idle
    /\ LET t == worker[w]
           profile == get_format_profile(outcome[t.index])
       IN  /\ extracted' = [extracted EXCEPT ![t.index] = profile]
           /\ results' = StoreResult(results, t.index,
                                     process_file(t.args, outcome[t.index]))
           /\ processed' = [processed EXCEPT ![t.index] = @ + 1]
           /\ completed' = Append(completed, t.index)
           /\ diag' = diag + DiagLines(t.args[2], profile)
    /\ worker' = [worker EXCEPT ![w] = Idle]
    /\ UNCHANGED <<pc, inputs, toolChecked, rootExamined, listing, poolCreated,
                   sigint, backlog, takeCount, reportVars, errors, notices,
                   workerReacted, traceback, intPhase, exitStatus>>

Gather ==
    /\ pc = "parallel"
    /\ AllComplete(results)
    /\ IF \E i \in 1..Len(results) : IsException(results[i])
       THEN /\ traceback' = TRUE
            /\ pc' = "exited"
            /\ exitStatus' = 1
            /\ UNCHANGED matches
       ELSE /\ matches' = SelectSeq(results, IsNotNone)
            /\ pc' = "report"
            /\ UNCHANGED <<traceback, exitStatus>>
    /\ UNCHANGED <<inputs, toolChecked, rootExamined, listing, poolVars,
                   printed, summary, noFilesNotice, errors, notices,
                   workerReacted, intPhase>>

PrintMatch ==
    /\ pc = "report"
    /\ Len(printed) < Len(matches)
    /\ printed' = Append(printed, matches[Len(printed) + 1])
    /\ UNCHANGED <<pc, inputs, toolChecked, rootExamined, listing, poolVars,
                   matches, summary, noFilesNotice, errors, notices,
                   workerReacted, traceback, intPhase, exitStatus>>

PrintSummary ==
    /\ pc = "report"
    /\ Len(printed) = Len(matches)
    /\ summary' = Summary(Len(mkv_files), Len(matches))
    /\ pc' = "exited"
    /\ exitStatus' = 0
    /\ UNCHANGED <<inputs, toolChecked, rootExamined, listing, poolVars,
                   matches, printed, noFilesNotice, errors, notices,
                   workerReacted, traceback, intPhase>>

----------------------------------------------------------------------------
\* SIGINT, delivered once to the foreground process group

InterruptListing ==
    /\ intPhase = "none"
    /\ pc = "listing"
    /\ intPhase' = "listing"
    /\ notices' = notices + 1
    /\ pc' = "exited"
    /\ exitStatus' = 130
    /\ UNCHANGED <<inputs, toolChecked, rootExamined, listing, poolVars,
                   reportVars, errors, workerReacted, traceback>>

InterruptParallel ==
    /\ intPhase = "none"
    /\ pc \in {"pool", "parallel"}
    /\ intPhase' = "parallel"
    /\ workerReacted' = {w \in DOMAIN sigint : sigint[w] # "SIG_IGN"}
    /\ notices' = notices + 1
    /\ pc' = "exited"
    /\ exitStatus' = 130
    /\ UNCHANGED <<inputs, toolChecked, rootExamined, listing, poolVars,
                   reportVars, errors, traceback>>

InterruptElsewhere ==
    /\ intPhase = "none"
    /\ pc \in {"main", "check_mediainfo", "scan_directory", "report"}
    /\ intPhase' = "uncaught"
    /\ traceback' = TRUE
    /\ pc' = "exited"
    /\ exitStatus' \in {1, 130}
    /\ UNCHANGED <<inputs, toolChecked, rootExamined, listing, poolVars,
                   reportVars, errors, notices, workerReacted>>

Interrupt == InterruptListing \/ InterruptParallel \/ InterruptElsewhere

Coordinator ==
    \/ ParseArgs
    \/ CheckMediainfo
    \/ ValidateRoot
    \/ ListFiles
    \/ CreatePool
    \/ Gather
    \/ PrintMatch
    \/ PrintSummary

Workers == \E w \in DOMAIN worker : TakeTask(w) \/ RunTask(w)

Next == Coordinator \/ Workers \/ Interrupt

Spec == Init /\ [][Next]_vars

\* The scheduler runs every worker that can run, and the coordinator; the
\* interrupt is an event of the environment and is under no obligation.
FairSpec ==
    /\ Init
    /\ [][Next]_vars
    /\ WF_vars(Coordinator)
    /\ \A w \in WorkerIds : WF_vars(TakeTask(w)) /\ WF_vars(RunTask(w))

----------------------------------------------------------------------------
\* The functions called directly, as the unit tests call them, on one path
\* with subprocess.run replaced by a given outcome.

UnitInit ==
    /\ pc = "unit"
    /\ argFolder = FALSE
    /\ verbose \in BOOLEAN
    /\ numJobs = 1
    /\ rootKind = "dir"
    /\ mkv_files \in {<<p>> : p \in 1..MaxFiles}
    /\ outcome \in {<<o>> : o \in UnitOutcomes}
    /\ results = <<Pending>>
    /\ extracted = <<NotRun>>
    /\ Fresh

unitUnchanged == <<inputs, toolChecked, rootExamined, listing, poolCreated,
                   worker, sigint, backlog, takeCount, processed, completed,
                   reportVars, errors, notices, workerReacted, traceback,
                   intPhase, exitStatus>>

UnitGetFormatProfile ==
    /\ pc = "unit"
    /\ extracted' = <<get_format_profile(outcome[1])>>
    /\ pc' = "unit_extracted"
    /\ UNCHANGED <<results, diag, unitUnchanged>>

UnitProcessFile ==
    /\ pc = "unit"
    /\ extracted' = <<get_format_profile(outcome[1])>>
    /\ results' = <<process_file(<<mkv_files[1], verbose>>, outcome[1])>>
    /\ diag' = DiagLines(verbose, get_format_profile(outcome[1]))
    /\ pc' = "unit_processed"
    /\ UNCHANGED unitUnchanged

\* process_file with get_format_profile replaced by a stub returning s.
UnitProcessFileStubbed ==
    /\ pc = "unit"
    /\ \E s \in StubProfiles :
          /\ extracted' = <<StrProfile(s)>>
          /\ results' = <<classify(mkv_files[1], verbose, StrProfile(s))>>
          /\ diag' = DiagLines(verbose, StrProfile(s))
    /\ pc' = "unit_processed"
    /\ UNCHANGED unitUnchanged

UnitNext == UnitGetFormatProfile \/ UnitProcessFile \/ UnitProcessFileStubbed

UnitSpec == UnitInit /\ [][UnitNext]_vars

----------------------------------------------------------------------------
\* Properties

Range(f) == {f[i] : i \in DOMAIN f}

Files == 1..Len(mkv_files)

\* The tool exited with status 0 and printed text that is not blank.
ToolGaveText(o) == o.kind = "exit" /\ o.returncode = 0 /\ strip(o.stdout) # <<>>

IsTarget(s) == s \in Range(TARGET_PROFILES)

\* Files for which the tool gave exactly a target profile.
MatchingFiles == {i \in Files : ToolGaveText(outcome[i]) /\ IsTarget(strip(outcome[i].stdout))}

\* Files for which the call of the tool raises something get_format_profile
\* does not catch.
RaisingFiles == {i \in Files : outcome[i].kind \notin {"exit", "TimeoutExpired", "SubprocessError"}}

InProgress == {w \in DOMAIN worker : worker[w] # Idle}

\* C1: for every outcome of the external invocation get_format_profile
\* returns a value and never raises; the value is None except when the tool
\* exits with status 0 and non-blank output, where it is the trimmed output.
C1_ExtractorNeverRaises ==
    pc = "unit_extracted"
    => /\ extracted[1].kind \in {"str", "None"}
       /\ IF ToolGaveText(outcome[1])
          THEN extracted[1] = StrProfile(strip(outcome[1].stdout))
          ELSE extracted[1] = NoneProfile

\* C2: in a run that reached the parallel phase and was not interrupted, the
\* process ends only with the summary printed, "Files scanned" equal to the
\* number of listed files, and exit status 0, however the extractions failed.
C2_FileFailureNeverAborts ==
    pc = "exited" /\ poolCreated /\ intPhase = "none"
    => /\ summary.shown
       /\ summary.scanned = Len(mkv_files)
       /\ exitStatus = 0
       /\ ~traceback

\* C3: an interrupt delivered during the listing or the parallel phase is
\* handled by the coordinator alone: one notice, no worker reacts, exit
\* status 130, no MATCH block and no summary.
C3_InterruptHandledOnce ==
    intPhase \in {"listing", "parallel"}
    => /\ pc = "exited"
       /\ notices = 1
       /\ workerReacted = {}
       /\ exitStatus = 130
       /\ printed = <<>>
       /\ ~summary.shown
       /\ ~noFilesNotice
       /\ ~traceback

\* An interrupt arrived in the parallel phase after a file had been
\* classified as a match, with another file still in progress.
C3_Witness ==
    /\ intPhase = "parallel"
    /\ \E i \in DOMAIN results : results[i].kind = "tuple"
    /\ InProgress # {}
    /\ notices = 1

\* C4: process_file returns (path, S) exactly when the extracted value S is
\* equal to a member of TARGET_PROFILES, and None for every other S and for
\* an absent extraction result, whatever the verbose flag.
C4_ExactMatchOnly ==
    pc = "unit_processed" /\ extracted[1].kind \in {"str", "None"}
    => /\ results[1].kind \in {"tuple", "None"}
       /\ results[1].kind = "tuple"
            <=> (extracted[1].kind = "str" /\ IsTarget(extracted[1].str))
       /\ results[1].kind = "tuple"
            => results[1] = MatchResult(mkv_files[1], extracted[1].str)
       /\ results[1].kind = "None" => results[1] = NoneResult

\* A target followed by a space was classified, verbosely, as no match.
C4_Witness ==
    /\ pc = "unit_processed"
    /\ verbose
    /\ extracted[1] = StrProfile(Append(TARGET_PROFILES[1], " "))
    /\ results[1] = NoneResult

\* C5: the end of an uninterrupted run is a function of the listing and of
\* the per-file outcomes only, not of the worker count nor of the schedule:
\* the same set of matches and the same number of files scanned.
C5_ScheduleIndependent ==
    pc = "exited" /\ poolCreated /\ intPhase = "none"
    => IF RaisingFiles = {}
       THEN /\ summary = Summary(Len(mkv_files), Cardinality(MatchingFiles))
            /\ Range(printed) =
                 {MatchResult(mkv_files[i], strip(outcome[i].stdout)) : i \in MatchingFiles}
            /\ exitStatus = 0
       ELSE /\ summary = NoSummary
            /\ printed = <<>>
            /\ exitStatus = 1

\* Eight workers; the second file completed before the first; both matched.
C5_Witness ==
    /\ pc = "exited"
    /\ numJobs = 8
    /\ intPhase = "none"
    /\ completed = <<2, 1>>
    /\ summary = Summary(2, 2)

\* C6: each listed file is taken from the backlog at most once, is held by at
\* most one worker, is processed at most once and yields at most one match
\* record; once all work is complete each file was processed exactly once
\* and there are as many match records as files whose extraction gave a
\* target profile.
C6_EachFileOnce ==
    poolCreated
    => /\ \A i \in Files :
            /\ takeCount[i] <= 1
            /\ processed[i] <= 1
            /\ Cardinality({w \in DOMAIN worker : worker[w].index = i}) <= 1
            /\ Cardinality({j \in DOMAIN results :
                   results[j].kind = "tuple" /\ results[j].path = mkv_files[i]}) <= 1
            /\ Cardinality({k \in DOMAIN completed : completed[k] = i}) = processed[i]
       /\ (backlog = <<>> /\ InProgress = {})
            => /\ \A i \in Files : processed[i] = 1 /\ extracted[i] # NotRun
               /\ Cardinality({j \in DOMAIN results : results[j].kind = "tuple"})
                    = Cardinality(MatchingFiles)

\* Two workers finished two files, exactly one of which is a match.
C6_Witness ==
    /\ pc = "parallel"
    /\ numJobs = 2
    /\ Len(mkv_files) = 2
    /\ backlog = <<>>
    /\ InProgress = {}
    /\ Cardinality(MatchingFiles) = 1
    /\ \A i \in Files : processed[i] = 1

\* C7: the tool check comes before the root is examined; when the tool check
\* fails, or the root is not a readable directory, one error is reported,
\* the exit status is 1, and nothing was listed, no pool was created, no
\* task was taken and nothing was printed.
C7_PreconditionsFatal ==
    /\ rootExamined => toolChecked
    /\ (\/ pc = "exited" /\ argFolder /\ ~toolChecked /\ intPhase = "none"
        \/ rootExamined /\ rootKind \in {"file", "missing", "unreadable_dir"})
       => /\ pc = "exited"
          /\ errors = 1
          /\ exitStatus = 1
          /\ ~enumerated
          /\ mkv_files = <<>>
          /\ ~poolCreated
          /\ worker = <<>>
          /\ takeCount = <<>>
          /\ printed = <<>>
          /\ ~summary.shown
          /\ ~noFilesNotice

\* The root is a regular file and the run ended with status 1.
C7_Witness ==
    /\ rootKind = "file"
    /\ toolChecked
    /\ rootExamined
    /\ pc = "exited"
    /\ exitStatus = 1
    /\ errors = 1

\* C8 as stated: with no .mkv file under the root, the summary is printed and
\* reports 0 files scanned and 0 matches, no pool is created and the exit
\* status is 0.
C8_EmptySummaryPrinted ==
    enumerated /\ mkv_files = <<>>
    => /\ summary = Summary(0, 0)
       /\ ~poolCreated
       /\ worker = <<>>
       /\ exitStatus = 0

\* C8 amended: with no .mkv file under the root, the run prints the
\* "No MKV files found" notice in place of the summary, creates no pool and
\* no worker, prints no MATCH block and ends with exit status 0.
C8_EmptyNoticeOnly ==
    enumerated /\ mkv_files = <<>>
    => /\ pc = "exited"
       /\ noFilesNotice
       /\ summary = NoSummary
       /\ printed = <<>>
       /\ ~poolCreated
       /\ worker = <<>>
       /\ exitStatus = 0

\* The listing came back empty and the run ended.
C8_Witness ==
    /\ enumerated
    /\ mkv_files = <<>>
    /\ noFilesNotice
    /\ exitStatus = 0

\* C9: with fair scheduling, never more files are in progress than there are
\* workers, and once the parallel phase has begun either an interrupt
\* arrives or every file is processed and the coordinator prints the
\* summary and terminates.
C9_ScanTerminatesWithSummary ==
    /\ [](Cardinality(InProgress) <= numJobs)
    /\ (pc = "parallel")
         ~> (\/ intPhase # "none"
             \/ /\ pc = "exited"
                /\ summary.shown
                /\ \A i \in Files : processed[i] = 1)

\* C10: MATCH blocks are printed in the order of the listing, whatever the
\* order of completion, and none is printed before every file has completed.
C10_PrintedInListingOrder ==
    /\ \A a, b \in DOMAIN printed :
          a < b => /\ printed[a].kind = "tuple"
                   /\ printed[b].kind = "tuple"
                   /\ \E i, j \in Files : /\ mkv_files[i] = printed[a].path
                                          /\ mkv_files[j] = printed[b].path
                                          /\ i < j
    /\ printed # <<>>
         => /\ \A i \in Files : processed[i] = 1 /\ results[i].kind # "pending"
            /\ \A a \in DOMAIN printed : printed[a] = matches[a]

\* The second file completed first, and the first file's block was still
\* printed first.
C10_Witness ==
    /\ completed = <<2, 1>>
    /\ Len(printed) = 2
    /\ printed[1].path = mkv_files[1]
    /\ printed[2].path = mkv_files[2]

====
